---------------------------- MODULE Spec2Model ----------------------------
(***************************************************************************)
(* skill-swap-chat: the session ("connection") lifecycle and the Meeting   *)
(* view, as a state machine.                                               *)
(*                                                                         *)
(* The store is the skill_connections table (one skill, owned by the       *)
(* instructor); every committed write is one event of the change feed,     *)
(* handed to the postgres_changes subscriptions.  A tab is one browser tab *)
(* of a signed-in user; it shows either the Index page or the Meeting      *)
(* page.  Two Meeting components exist in the source: the monolithic page  *)
(* (src/src/pages/Meeting.tsx, variant "page") and the refactored one      *)
(* built on useConnection and the utils modules (src/unnamed/part_007,     *)
(* variant "hooks").  variant selects the one the router mounts.           *)
(*                                                                         *)
(* An await on the store's update, on a broadcast or on getUserMedia is a  *)
(* suspension point: the step up to the await and its continuation are     *)
(* separate actions.  navigate('/') from the Meeting page only records the *)
(* pending navigation (leaving); RenderLeave applies it (cleanup, unmount, *)
(* Index mounts), so handlers may still run in between.  A navigation to a *)
(* meeting, and a state update that re-runs an effect without leaving the  *)
(* page, are rendered within the action that makes them.  The Index page's *)
(* subscription handles an event in the step of its commit; a Meeting      *)
(* view's subscription receives it in its inbox and handles it later.  A   *)
(* feed event that a subscription's handler ignores is dropped on arrival. *)
(* Requests still in flight when their component unmounts (select,         *)
(* getUserMedia, broadcast) are dropped with it; the continuations of      *)
(* endMeeting and handleConnectionResponse are not.                        *)
(*                                                                         *)
(* Specifications over Init and these actions: Spec takes every action;    *)
(* SpecSession, SpecChat, SpecMedia, SpecPresence, SpecEntries, SpecSignal,*)
(* SpecFailure and SpecWatch take the actions of one concern (the          *)
(* lifecycle of the row and its change feed, the chat, the media room, the *)
(* presence channel, the presence entries of a view whose effect runs      *)
(* again, the negotiation of the peer connection, device and connection    *)
(* failures, the load against the change feed) with mount, load and        *)
(* unmount.                                                                *)
(* SpecPresence, SpecSignal and SpecWatch are fair to what the database,   *)
(* the realtime connection and the pending continuations still have to     *)
(* deliver.                                                                *)
(*                                                                         *)
(* SpecTopics, SpecPresenceCall, SpecTrack, SpecDevices and SpecLeaveCall  *)
(* exercise the naming of the channels, one module of src/utils each       *)
(* (presenceUtils, the ontrack handler of webRTCUtils, mediaUtils) and the *)
(* leave handler of the page's presence channel on inputs drawn by their   *)
(* own initial predicate, with the application at rest.                    *)
(***************************************************************************)
EXTENDS Naturals, Integers, Sequences, FiniteSets

\* ------------------------------------------------------------------ bounds
MaxConn    == 1   \* rows of skill_connections
MaxInbox   == 2   \* feed events in flight to one Meeting subscription
MaxRaised  == 2   \* terminations a view records (further ones are not recorded)
MaxEnds    == 2   \* endMeeting calls of one tab awaiting their update
MaxMsgs    == 2   \* chat messages sent in total
MaxAcquire == 2   \* media streams granted by getUserMedia in total
MaxCount   == 1   \* saturation of the pending / open resource counts
MaxPeers   == 2   \* saturation of the count of open peer connections of a tab
MaxSignal  == 2   \* signaling messages in flight to one signaling channel
MaxCands   == 1   \* ICE candidates one peer connection gathers
MaxSubs    == 2   \* channel subscriptions a message is routed among
MaxEvents  == 2   \* presence events handed to one presence channel
MaxTracks  == 3   \* track events of one peer connection
MaxEntries == 2   \* presence channels one view opens on a topic that are counted
MaxKeyEntries == 2 \* presence entries under one key of a presence topic

\* -------------------------------------------------------------- identities
\* two browser tabs; the users: the instructor of the one skill on offer, the
\* learner who asks for a session on it, and a third signed-in user.  The
\* instructor may be signed in at both tabs
Tabs == {"t1", "t2"}
SignIns == {<<"inst", "lrn">>, <<"inst", "oth">>, <<"lrn", "oth">>, <<"inst", "inst">>}
ConnIds == 1..MaxConn
\* ?type=; "audio" takes the branches of "video" in every handler below
MeetingTypes == {"chat", "video"}
Variants == {"page", "hooks"}

\* skills.instructor_id of the one skill on offer
skillInstructorId == "inst"

NoRow == [learner_id |-> "none", status |-> "absent"]

VARIABLES
  variant,      \* which Meeting component the router mounts
  userOf,       \* tab -> the user signed in at it
  store,        \* skill_connections: id -> row (NoRow when absent)
  route,        \* tab -> "index" | "meeting"
  connectionId, \* tab -> the :connectionId route parameter
  meetingType,  \* tab -> the ?type= search parameter
  leaving,      \* Meeting: tab -> navigate('/') was called, not yet rendered
  connectionRequests, \* Index: tab -> set of listed request ids
  responses,    \* tab -> handleConnectionResponse calls awaiting the update
  feedInbox,    \* Meeting: tab -> feed events in flight to connectionChannel
  connection,   \* Meeting: tab -> loaded connection id (0: null)
  fetch,        \* Meeting: tab -> the select of fetchConnection is in flight
  answer,       \* Meeting: tab -> what the database answered to that select
  outcome,      \* Meeting: tab -> what the last returned load did
  messages,     \* Meeting: tab -> the message list
  chatInbox,    \* Meeting: tab -> chat broadcasts in flight to messageChannel
  sends,        \* Meeting: tab -> sendMessage calls awaiting the broadcast
  nSent,        \* chat messages sent so far
  raised,       \* Meeting: tab -> the writers of the events that raised "Meeting Ended"
  ends,         \* tab -> endMeeting calls awaiting the update (the stream each captured)
  stream,       \* Meeting: tab -> the stream state slot (0: null)
  effectStream, \* Meeting: tab -> the stream captured by the effect's cleanup
  streams,      \* every MediaStream granted: owner, live tracks, view closed
  acquiring,    \* Meeting: tab -> getUserMedia calls in flight that store the stream
  probing,      \* Meeting: tab -> getUserMedia calls in flight of the permission check
  deviceError,  \* Meeting: tab -> the deviceError slot holds a message
  presence,     \* tab -> presence channels opened and not closed
  presenceOn,   \* tab -> the meetings whose presence topic the tab has joined
  tracked,      \* tab -> the meetings in whose presence state the tab has an entry
  syncDue,      \* tab -> the presence topics with a sync event in flight to the tab
  observed,     \* tab -> the users in the state last handed to onPresenceChange
  joining,      \* tab -> meeting -> channels of the open view that will track once subscribed
  entries,      \* tab -> meeting -> presence entries tracked by channels of the open view
  peers,        \* tab -> peer connections (with signaling channel) not closed
  pc,           \* tab -> the peer connection of its last setupPeerConnection call
  sigInbox,     \* tab -> signaling broadcasts in flight to that call's channel
  peerStream,   \* Meeting: tab -> the peerStream slot holds the remote stream
  routing,      \* realtime: the subscriptions, the message sent and who was handed it
  presenceCall, \* presenceUtils: one presence channel, its events and its callback
  trackSlot,    \* webRTCUtils: the track events of one connection and the slot they set
  mediaCall,    \* mediaUtils: one call of startMediaStream / checkDevicePermissions
  leaveCall     \* Meeting page: one presence channel, the topic's entries, its leave events

fixedVars   == <<variant, userOf>>
routeVars   == <<route, connectionId, meetingType, leaving>>
indexVars   == <<connectionRequests, responses>>
loadVars    == <<connection, fetch, answer, outcome>>
chatVars    == <<messages, chatInbox, sends, nSent>>
mediaVars   == <<stream, effectStream, streams, acquiring, probing, deviceError>>
presenceVars == <<presence, presenceOn, tracked, syncDue, observed, joining, entries>>
peerVars    == <<peers, pc, sigInbox, peerStream>>
rtcVars     == <<presenceVars, peerVars>>
utilVars    == <<routing, presenceCall, trackSlot, mediaCall, leaveCall>>
vars == <<fixedVars, utilVars, store, routeVars, indexVars, feedInbox, loadVars, chatVars,
          raised, ends, mediaVars, rtcVars>>

\* ---------------------------------------------------------------- helpers
\* useAuth(): the identity of the tab's signed-in user
user(t) == userOf[t]

Min(a, b) == IF a < b THEN a ELSE b
Bump(n) == Min(n + 1, MaxCount)

\* f with the value v at every tab of M
With(f, M, v) == [u \in Tabs |-> IF u \in M THEN v ELSE f[u]]

\* ------------------------------------------------------------------ store
\* a select without the status filter: any row of the id is returned
SelectAnyStatus(id) == IF store[id] # NoRow THEN "row" ELSE "none"

\* .eq('id', connectionId).eq('status', 'accepted').maybeSingle()
SelectAccepted(id) == IF store[id].status = "accepted" THEN "row" ELSE "none"

\* a participant check that every signed-in user passes
IsParticipantAnyone(id, uid) == TRUE

\* the participant check of fetchConnection:
\* !(data.learner_id !== user.id && data.skill?.instructor_id !== user.id)
IsParticipant(id, uid) == store[id].learner_id = uid \/ skillInstructorId = uid

\* a request filter that takes every signed-in user for the instructor
IsInstructorOfSkillAnyone(uid) == TRUE

\* the filter of fetchConnectionRequests and of the connectionsChannel handler:
\* request.skill.instructor_id === user.id
IsInstructorOfSkill(uid) == skillInstructorId = uid

\* the rows fetchConnectionRequests lists: pending, on a skill of the user
PendingRequests(uid) ==
  {id \in ConnIds : store[id].status = "pending" /\ IsInstructorOfSkill(uid)}

\* ------------------------------------------------------------------ media
\* stream.getTracks().forEach(track => track.stop()) on the stream k (0: null)
StopTracks(strs, k) == IF k = 0 THEN strs ELSE [strs EXCEPT ![k].live = FALSE]

\* the streams a tab acquired are marked once the view that acquired them is left
CloseView(strs, t) ==
  [k \in DOMAIN strs |-> IF strs[k].owner = t THEN [strs[k] EXCEPT !.closed = TRUE]
                                              ELSE strs[k]]

\* navigator.mediaDevices.getUserMedia resolving with a new stream for tab t
NewStream(t) == [owner |-> t, live |-> TRUE, closed |-> FALSE]

\* a device error that also calls navigate('/')
ShowDeviceErrorAndLeave(t) ==
  /\ deviceError' = [deviceError EXCEPT ![t] = TRUE]
  /\ leaving' = [leaving EXCEPT ![t] = TRUE]

\* what the Meeting components do with a device error: setDeviceError(message)
\* and a destructive toast; no navigation
ShowDeviceError(t) ==
  /\ deviceError' = [deviceError EXCEPT ![t] = TRUE]
  /\ leaving' = leaving

\* the stream the cleanup of the Meeting effect stops: the value of `stream` in
\* the render whose effect registered the cleanup
CleanupStream(t) == effectStream[t]

\* ------------------------------------------------- presence and signaling
\* setupPresenceChannel(meetingId, userId, learnerId, instructorId) as the
\* Meeting components call it.  The page's own setupPresenceChannel subscribes
\* and never calls track; presenceUtils.setupPresenceChannel calls track once
\* subscribed, and hands the synced state to onPresenceChange if one was passed
\* (the hooks Meeting passes four arguments, so none)
TracksPresence == variant = "hooks"
OnPresenceChangeGiven == FALSE

\* presenceChannel.presenceState() of the topic presence:<c>: the keys (user
\* ids) that have a tracked entry
PresenceState(c) == {userOf[u] : u \in {v \in Tabs : c \in tracked[v]}}

\* the call of setupPresenceChannel for meeting c when open holds: a channel is
\* created and subscribed (the join is answered by a first sync); the channel
\* returned is dropped by the caller.  A channel of presenceUtils tracks an
\* entry of its own once subscribed (counted up to MaxEntries a view)
SetupPresence(t, c, open) ==
  /\ presence' = [presence EXCEPT ![t] = IF open THEN Bump(@) ELSE @]
  /\ presenceOn' = [presenceOn EXCEPT ![t] = IF open THEN @ \cup {c} ELSE @]
  /\ syncDue' = [syncDue EXCEPT ![t] = IF open THEN @ \cup {c} ELSE @]
  /\ joining' = IF open /\ TracksPresence /\ joining[t][c] + entries[t][c] < MaxEntries
                  THEN [joining EXCEPT ![t][c] = @ + 1]
                  ELSE joining
  /\ UNCHANGED <<tracked, observed, entries>>

\* no RTCPeerConnection.  ofView: the view whose handleMediaToggle made the
\* connection is still mounted; echo: a broadcast of the user's own was handled;
\* state: connectionState; logged and notice: the last state written to the
\* console and the last state shown in a toast
NoPc == [id |-> 0, phase |-> "none", local |-> "none", remote |-> "none",
         cands |-> 0, applied |-> 0, dropped |-> 0, answerDue |-> FALSE,
         echo |-> FALSE, ofView |-> FALSE, state |-> "new", logged |-> "new",
         notice |-> "none"]

\* peerConnection.onconnectionstatechange: the toast is shown
\* `if (peerConnection.connectionState === 'connected')`
NoticeOf(p, s) == IF s = "connected" THEN s ELSE p.notice

\* a role test that makes every caller of setupPeerConnection the initiator
IsInitiatorAnyone(t) == TRUE

\* setupPeerConnection: `if (userId === instructorId)`, instructorId being
\* connection.skill.instructor_id
IsInitiator(t) == user(t) = skillInstructorId

\* setupPeerConnection up to its first publication.  The instructor's call
\* creates the offer and sets it as local description (ICE gathering starts);
\* its channel is not subscribed yet.  Any other caller goes straight to
\* .on(...).subscribe()
NewPc(t) ==
  IF IsInitiator(t)
    THEN [NoPc EXCEPT !.id = connection[t], !.phase = "described",
                      !.local = "offer", !.cands = MaxCands, !.ofView = TRUE]
    ELSE [NoPc EXCEPT !.id = connection[t], !.phase = "subscribed",
                      !.ofView = TRUE]

\* handleMediaToggle's `if (connection && !peerStream) setupPeerConnection(...)`
\* when go holds: one more RTCPeerConnection and signaling channel; the view
\* keeps no reference to the previous ones, which stay open
SetupPeer(t, go) ==
  /\ peers' = [peers EXCEPT ![t] = IF go THEN Min(@ + 1, MaxPeers) ELSE @]
  /\ pc' = [pc EXCEPT ![t] = IF go THEN NewPc(t) ELSE @]
  /\ sigInbox' = [sigInbox EXCEPT ![t] = IF go THEN <<>> ELSE @]
  /\ peerStream' = peerStream

\* the signaling channels a broadcast of tab t reaches: those of the other
\* tabs subscribed to signaling:<id> at that moment (a broadcast is not echoed
\* to the channel that sent it)
SignalReceivers(t) ==
  {u \in Tabs \ {t} : pc[u].phase = "subscribed" /\ pc[u].id = pc[t].id}

\* the bodies of the handlers of the signaling channel for a broadcast m, on
\* the peer connection p.
\* offer: setRemoteDescription(offer), createAnswer, setLocalDescription(answer)
\* (ICE gathering starts), and the answer is published after the await.
\* answer: setRemoteDescription(answer), which rejects unless a local offer is
\* pending.  ice-candidate: addIceCandidate, which rejects while there is no
\* remote description; the candidate is then gone
HandleSignal(p, m) ==
  CASE m.event = "offer" ->
         [p EXCEPT !.remote = "offer", !.local = "answer", !.cands = MaxCands,
                   !.answerDue = TRUE]
    [] m.event = "answer" ->
         IF p.local = "offer" /\ p.remote = "none"
           THEN [p EXCEPT !.remote = "answer"] ELSE p
    [] OTHER ->
         IF p.remote # "none"
           THEN [p EXCEPT !.applied = Min(@ + 1, MaxCands)]
           ELSE [p EXCEPT !.dropped = Min(@ + 1, MaxCands)]

\* handlers that act on every broadcast, the user's own included
OnSignalFromAnyone(p, m, uid) == HandleSignal(p, m)

\* handlers whose offer handler creates and publishes the answer without
\* setting the offer as remote description
OnSignalAnswerUnset(p, m, uid) ==
  IF m.userId # uid /\ m.event = "offer"
    THEN [p EXCEPT !.local = "answer", !.answerDue = TRUE]
    ELSE IF m.userId = uid THEN [p EXCEPT !.echo = TRUE] ELSE HandleSignal(p, m)

\* the handlers of the signaling channel of the user uid: each acts only
\* `if (payload.userId !== userId)`
OnSignal(p, m, uid) ==
  IF m.userId = uid THEN [p EXCEPT !.echo = TRUE] ELSE HandleSignal(p, m)

\* signalingChannel.send({ type: 'broadcast', event, payload: { ..., userId } })
Publish(t, event) ==
  /\ \A u \in SignalReceivers(t) : Len(sigInbox[u]) < MaxSignal
  /\ sigInbox' = [u \in Tabs |->
                    IF u \in SignalReceivers(t)
                      THEN Append(sigInbox[u], [event |-> event, userId |-> user(t)])
                      ELSE sigInbox[u]]

\* the outcomes of a load that stores nothing and calls navigate('/')
FailedOutcomes == {"notfound", "unauthorized", "error"}

\* the Meeting UI below the loading / "Unable to load" screens is rendered.  A
\* failed load calls navigate('/') and setLoading(false) in one continuation,
\* which React renders in one batch: until that render the loading screen stays
UiShown(t) ==
  /\ route[t] = "meeting"
  /\ connection[t] # 0
  /\ ~fetch[t]
  /\ ~(leaving[t] /\ outcome[t] \in FailedOutcomes)

\* ------------------------------------------------------- the change feed
\* the postgres_changes handler of the Meeting's connectionChannel raises
\* "Meeting Ended" and navigates: an UPDATE whose new status is not accepted
TerminationRaised(e) == e.type = "UPDATE" /\ e.status # "accepted"

\* the Meeting's connectionChannel is subscribed: by the page's effect from the
\* mount on, by the hooks variant's effect once a connection is loaded
FeedSubscribed(t) ==
  route[t] = "meeting" /\ (variant = "page" \/ connection[t] # 0)

\* the Meeting's messageChannel is subscribed (by the same effect)
ChatSubscribed(t) ==
  route[t] = "meeting" /\ (variant = "page" \/ connection[t] # 0)

\* a channel that hands a broadcast to its sender's own handler as well
ChatReceiversEcho(t) ==
  {u \in Tabs : ChatSubscribed(u) /\ connectionId[u] = connectionId[t]}

\* the message channels a broadcast of tab t on chat:<connectionId> reaches:
\* those of the other tabs subscribed to that topic at that moment
ChatReceivers(t) ==
  {u \in Tabs \ {t} : ChatSubscribed(u) /\ connectionId[u] = connectionId[t]}

\* the chat messages the other tabs have broadcast and still hold, in the order
\* of their sending
SentByOthers(t) ==
  LET S == UNION {{messages[u][i] : i \in {k \in DOMAIN messages[u] : messages[u][k].from = u}}
                    \cup {sends[u][i] : i \in DOMAIN sends[u]} : u \in Tabs \ {t}}
  IN  [i \in 1..Cardinality(S) |->
         CHOOSE m \in S : Cardinality({x \in S : x.n < m.n}) = i - 1]

\* a message channel that is handed, on subscribing, what was broadcast before
JoinInboxReplay(t) == SentByOthers(t)

\* what a message channel holds when .subscribe() is called on it: a broadcast
\* is not kept by the server, so nothing
JoinInbox(t) == <<>>

\* a handler that puts the message in front of the list
ArriveFirst(list, m) == <<m>> \o list

\* setMessages(prev => [...prev, message])
Arrive(list, m) == Append(list, m)

\* the handler of Index's connectionsChannel navigates to the meeting: on an
\* UPDATE to accepted, as the instructor of the skill or as the row's learner
IndexNavigates(t, e, learner) ==
  /\ route[t] = "index"
  /\ e.type = "UPDATE"
  /\ e.status = "accepted"
  /\ (IsInstructorOfSkill(user(t)) \/ learner = user(t))

\* the handler of Index's connectionsChannel lists the request: on an INSERT, as
\* the instructor of the skill
IndexLists(t, e) ==
  /\ route[t] = "index"
  /\ e.type = "INSERT"
  /\ IsInstructorOfSkill(user(t))

\* the handler of a SkillCard's channel (UPDATE, filter skill_id=eq.<skill.id>)
\* navigates to the meeting: on an update to accepted, as the row's learner
SkillCardNavigates(t, e, learner) ==
  /\ route[t] = "index"
  /\ e.type = "UPDATE"
  /\ e.status = "accepted"
  /\ learner = user(t)

\* the navigate calls that event e causes at tab t, one per handler
FeedNavigations(t, e, learner) ==
  (IF IndexNavigates(t, e, learner) THEN 1 ELSE 0)
    + (IF SkillCardNavigates(t, e, learner) THEN 1 ELSE 0)

\* the Meeting's connectionChannel of tab t delivers e to a handler that acts
MeetingHandles(t, e) ==
  FeedSubscribed(t) /\ e.id = connectionId[t] /\ TerminationRaised(e)

\* ------------------------------------------------------------------- Init
\* every tab shows the Index page, which has fetched its requests; the table
\* holds a row asked for by the learner, or none yet when the learner is signed in
AppInit ==
  /\ variant \in Variants
  /\ userOf \in {[t \in Tabs |-> IF t = "t1" THEN p[1] ELSE p[2]] : p \in SignIns}
  /\ store \in [ConnIds -> {[learner_id |-> "lrn", status |-> s] :
                              s \in IF \A t \in Tabs : userOf[t] = skillInstructorId
                                      THEN {"accepted"} ELSE {"pending", "accepted"}}
                          \cup IF \E t \in Tabs : userOf[t] = "lrn" THEN {NoRow} ELSE {}]
  /\ route = [t \in Tabs |-> "index"]
  /\ connectionId = [t \in Tabs |-> 0]
  /\ meetingType = [t \in Tabs |-> "chat"]
  /\ leaving = [t \in Tabs |-> FALSE]
  /\ connectionRequests = [t \in Tabs |-> PendingRequests(user(t))]
  /\ responses = [t \in Tabs |-> {}]
  /\ feedInbox = [t \in Tabs |-> <<>>]
  /\ connection = [t \in Tabs |-> 0]
  /\ fetch = [t \in Tabs |-> FALSE]
  /\ answer = [t \in Tabs |-> "none"]
  /\ outcome = [t \in Tabs |-> "none"]
  /\ messages = [t \in Tabs |-> <<>>]
  /\ chatInbox = [t \in Tabs |-> <<>>]
  /\ sends = [t \in Tabs |-> <<>>]
  /\ nSent = 0
  /\ raised = [t \in Tabs |-> <<>>]
  /\ ends = [t \in Tabs |-> <<>>]
  /\ stream = [t \in Tabs |-> 0]
  /\ effectStream = [t \in Tabs |-> 0]
  /\ streams = <<>>
  /\ acquiring = [t \in Tabs |-> 0]
  /\ probing = [t \in Tabs |-> 0]
  /\ deviceError = [t \in Tabs |-> FALSE]
  /\ presence = [t \in Tabs |-> 0]
  /\ presenceOn = [t \in Tabs |-> {}]
  /\ tracked = [t \in Tabs |-> {}]
  /\ syncDue = [t \in Tabs |-> {}]
  /\ observed = [t \in Tabs |-> {}]
  /\ joining = [t \in Tabs |-> [c \in ConnIds |-> 0]]
  /\ entries = [t \in Tabs |-> [c \in ConnIds |-> 0]]
  /\ peers = [t \in Tabs |-> 0]
  /\ pc = [t \in Tabs |-> NoPc]
  /\ sigInbox = [t \in Tabs |-> <<>>]
  /\ peerStream = [t \in Tabs |-> FALSE]

\* ------------------------------------------------- realtime: the topics
\* the session ids the channel names are built from
Sessions == {"s1", "s2"}

\* the component tags of the names the Meeting code publishes on, and of the
\* names it subscribes
PublishTags == {"chat", "meeting", "presence", "signaling", "stream"}
SubscribeTags == {"chat", "meeting", "presence", "signaling", "call"}

\* a name that leaves the session id out
ChannelNameStatic(tag, id) == tag

\* supabase.channel(`${tag}:${connectionId}`)
ChannelName(tag, id) == tag \o ":" \o id

\* what a channel of the tag carries: a broadcast, presence, or the changes of
\* skill_connections
KindOf(tag) ==
  CASE tag = "presence" -> "presence"
    [] tag = "meeting" -> "postgres_changes"
    [] OTHER -> "broadcast"

\* the event name of the send and of the .on() binding
EventOf(tag) ==
  CASE tag = "chat" -> "message"
    [] tag = "signaling" -> "offer"
    [] tag \in {"stream", "call"} -> "stream-ready"
    [] tag = "presence" -> "sync"
    [] OTHER -> "*"

\* the subscription of a handler: the channel's name, its binding and, for the
\* change feed, the filter `id=eq.${connectionId}`
Subscription(tag, id) ==
  [topic |-> ChannelName(tag, id), kind |-> KindOf(tag), event |-> EventOf(tag),
   filter |-> id, tag |-> tag, id |-> id]

\* a message of a component of a session: the name of the channel it is sent
\* on, or for the change feed the row that changed
Message(tag, id) ==
  [topic |-> ChannelName(tag, id), kind |-> KindOf(tag), event |-> EventOf(tag),
   row |-> id, tag |-> tag, id |-> id]

\* the realtime server: a change of a row goes to the postgres_changes bindings
\* whose filter names the row, anything else to the bindings of its kind and
\* event on the channel of the same name
Routes(m, s) ==
  IF m.kind = "postgres_changes"
    THEN s.kind = m.kind /\ s.filter = m.row
    ELSE s.kind = m.kind /\ s.event = m.event /\ s.topic = m.topic

NoMessage == [topic |-> "", kind |-> "none", event |-> "", row |-> "", tag |-> "",
              id |-> ""]

RoutingIdle == [subs |-> {}, msg |-> NoMessage, delivered |-> {}]

\* ------------------------------------------- presenceUtils: the handlers
\* the presence events of a channel: the event and what presenceState() is
\* when its handler runs (after a join it holds the one who joined)
PresenceEvents ==
  {x \in [event : {"sync", "join", "leave"}, state : SUBSET {skillInstructorId, "lrn"}] :
     x.event = "join" => x.state # {}}

\* the handlers of setupPresenceChannel for event e: the sync handler hands the
\* state to onPresenceChange if one was passed; the join and the leave handler
\* write to the console
OnPresenceEvent(call, e) ==
  IF e.event = "sync" /\ call.given THEN Append(call.invoked, e.state)
  ELSE call.invoked

PresenceCallIdle == [given |-> FALSE, due |-> <<>>, handled |-> <<>>, invoked |-> <<>>]

\* ------------------------------------------------ webRTCUtils: ontrack
\* the MediaStreams a remote track can belong to
RemoteStreams == {"r1", "r2"}

\* event.streams of a track event: no stream, one, or two
TrackEvents ==
  {<<>>} \cup {<<a>> : a \in RemoteStreams}
         \cup {e \in RemoteStreams \X RemoteStreams : e[1] # e[2]}

\* peerConnection.ontrack: setPeerStream(event.streams[0]); the element 0 of an
\* empty array is undefined
OnTrack(eventStreams) ==
  IF Len(eventStreams) > 0 THEN eventStreams[1] ELSE "undefined"

TrackSlotIdle == [due |-> <<>>, slot |-> "null", handled |-> 0]

\* ------------------------------------------------ mediaUtils: the calls
MediaFunctions == {"startMediaStream", "checkDevicePermissions"}

\* what getUserMedia does when it is called: it resolves, or rejects with an
\* error of this name
GumOutcomes ==
  {"ok", "NotFoundError", "DevicesNotFoundError", "NotAllowedError",
   "PermissionDeniedError", "NotReadableError", "TrackStartError",
   "OverconstrainedError"}

\* the message of the catch of startMediaStream / checkDevicePermissions for
\* an error of the name: "raw" is error.message as the browser worded it
CatchMessage(fn, name) ==
  CASE name \in {"NotFoundError", "DevicesNotFoundError"} -> "not-found"
    [] name \in {"NotAllowedError", "PermissionDeniedError"} -> "permission-denied"
    [] fn = "startMediaStream" /\ name \in {"NotReadableError", "TrackStartError"}
         -> "in-use"
    [] OTHER -> "raw"

\* the device kind required by the type is missing from enumerateDevices()
DeviceMissing(c) == (c.type = "video" /\ ~c.hasVideo) \/ ~c.hasAudio

\* startMediaStream(type): enumerateDevices, the not-found returns, then
\* getUserMedia and `{ stream: mediaStream, error: null }` or the catch
StartMediaStreamResult(c) ==
  IF DeviceMissing(c)
    THEN [stream |-> FALSE, error |-> "not-found", requested |-> FALSE]
  ELSE IF c.gum = "ok"
    THEN [stream |-> TRUE, error |-> "null", requested |-> TRUE]
  ELSE [stream |-> FALSE, error |-> CatchMessage(c.fn, c.gum), requested |-> TRUE]

\* checkDevicePermissions(type): getUserMedia first, then enumerateDevices and
\* the not-found returns, `{ error: null }` or the catch
CheckDevicePermissionsResult(c) ==
  IF c.gum # "ok"
    THEN [stream |-> FALSE, error |-> CatchMessage(c.fn, c.gum), requested |-> TRUE]
  ELSE IF DeviceMissing(c)
    THEN [stream |-> FALSE, error |-> "not-found", requested |-> TRUE]
  ELSE [stream |-> FALSE, error |-> "null", requested |-> TRUE]

NoResult == [stream |-> FALSE, error |-> "pending", requested |-> FALSE]

MediaCallIdle ==
  [fn |-> "none", type |-> "video", hasVideo |-> TRUE, hasAudio |-> TRUE,
   gum |-> "ok", result |-> NoResult]

\* ------------------------------------- Meeting page: the leave handler
\* the keys of a presence topic: the user ids of the clients that track on it
PresenceKeys == {skillInstructorId, "lrn", "oth"}

\* the 'leave' handler of the page's setupPresenceChannel, for a leave event of
\* the key: it toasts "Participant Left" and calls setPeerStream(null) if the
\* key is the learner's or the instructor's and not the viewer's own
OnPresenceLeave(userId, learnerId, instructorId, key) ==
  (key = learnerId \/ key = instructorId) /\ key # userId

LeaveCallIdle ==
  [userId |-> "none", state |-> [k \in PresenceKeys |-> 0], handled |-> 0,
   key |-> "none", cleared |-> FALSE]

UtilIdle ==
  /\ routing = RoutingIdle
  /\ presenceCall = PresenceCallIdle
  /\ trackSlot = TrackSlotIdle
  /\ mediaCall = MediaCallIdle
  /\ leaveCall = LeaveCallIdle

Init == AppInit /\ UtilIdle

\* ---------------------------------------------------- mount and unmount
\* Mount of the Meeting component on /meeting/:id?type= in every tab of M (the
\* Index page they showed unmounts).  The page runs its effect: both channels
\* are subscribed and fetchConnection is called.  The hooks variant runs
\* useConnection's effect; its own returns at `if (!connection)`.
Mount(M, id, type) ==
  /\ route' = With(route, M, "meeting")
  /\ connectionId' = With(connectionId, M, id)
  /\ meetingType' = With(meetingType, M, type)
  /\ leaving' = With(leaving, M, FALSE)
  /\ connection' = With(connection, M, 0)
  /\ fetch' = With(fetch, M, TRUE)
  /\ answer' = With(answer, M, "none")
  /\ outcome' = With(outcome, M, "none")
  /\ messages' = With(messages, M, <<>>)
  /\ chatInbox' = [u \in Tabs |-> IF u \in M THEN JoinInbox(u) ELSE chatInbox[u]]
  /\ sends' = With(sends, M, <<>>)
  /\ raised' = With(raised, M, <<>>)
  /\ stream' = With(stream, M, 0)
  /\ effectStream' = With(effectStream, M, 0)
  /\ acquiring' = With(acquiring, M, 0)
  /\ probing' = With(probing, M, 0)
  /\ deviceError' = With(deviceError, M, FALSE)

\* the commit of a write: its event e goes to the subscriptions (by names the
\* tab that wrote).  Index pages list an INSERT or navigate to the meeting on an
\* acceptance (by the page's handler, by a SkillCard's, or by both); Meeting
\* views whose handler acts on e receive it in their inbox
Commit(e, learner) ==
  LET Movers == {u \in Tabs : FeedNavigations(u, e, learner) > 0} IN
  /\ \A u \in Tabs : MeetingHandles(u, e) => Len(feedInbox[u]) < MaxInbox
  /\ Mount(Movers, e.id, "video")
  /\ connectionRequests' =
       [u \in Tabs |-> IF u \in Movers THEN {}
                       ELSE IF IndexLists(u, e) THEN connectionRequests[u] \cup {e.id}
                       ELSE connectionRequests[u]]
  /\ feedInbox' =
       [u \in Tabs |-> IF u \in Movers THEN <<>>
                       ELSE IF MeetingHandles(u, e) THEN Append(feedInbox[u], e)
                       ELSE feedInbox[u]]

\* .insert({ skill_id, learner_id }): a new row, status defaulting to pending
InsertRow(id, t) ==
  /\ store' = [store EXCEPT ![id] = [learner_id |-> user(t), status |-> "pending"]]
  /\ Commit([type |-> "INSERT", id |-> id, status |-> "pending", by |-> t], user(t))

\* .update({ status }).eq('id', id): the filter names the id alone, so the row is
\* rewritten whatever its status, and the feed carries one UPDATE event per
\* rewritten row
UpdateStatus(id, s, t) ==
  /\ store' = [store EXCEPT ![id].status = s]
  /\ Commit([type |-> "UPDATE", id |-> id, status |-> s, by |-> t],
            store[id].learner_id)

\* the effect of the hooks Meeting (part_007, deps: connection, stream,
\* meetingType, ...), run again with the given dependency values: the previous
\* run's subscriptions are removed; without a connection the effect returns at
\* once; with one it calls checkDevicePermissions for a media type, opens a
\* presence channel and subscribes chat and change feed anew
HooksEffect(t, conn, type, strm) ==
  /\ chatInbox' = [chatInbox EXCEPT ![t] = JoinInbox(t)]
  /\ feedInbox' = [feedInbox EXCEPT ![t] = <<>>]
  /\ probing' = [probing EXCEPT ![t] = IF conn # 0 /\ type # "chat" THEN Bump(@) ELSE @]
  /\ SetupPresence(t, conn, conn # 0)
  /\ effectStream' = [effectStream EXCEPT ![t] = IF conn # 0 THEN strm ELSE 0]

\* navigate(`/meeting/${id}?type=${type}`) and its render, strm being the stream
\* slot and strs the streams the calling handler leaves.  From the Index page
\* the Meeting component mounts.  On the Meeting page the component stays
\* mounted; with other parameters the effects that depend on them are cleaned
\* up and run again (the page's effect subscribes anew and calls
\* fetchConnection again; useConnection's effect does so for another id)
ToMeeting(t, id, type, strm, strs) ==
  IF route[t] = "index"
    THEN /\ Mount({t}, id, type)
         /\ feedInbox' = [feedInbox EXCEPT ![t] = <<>>]
         /\ streams' = strs
         /\ UNCHANGED presenceVars
    ELSE /\ leaving' = [leaving EXCEPT ![t] = FALSE]
         /\ connectionId' = [connectionId EXCEPT ![t] = id]
         /\ meetingType' = [meetingType EXCEPT ![t] = type]
         /\ stream' = [stream EXCEPT ![t] = strm]
         /\ UNCHANGED <<route, connection, outcome, messages, sends, raised,
                        acquiring, deviceError>>
         /\ IF connectionId[t] = id /\ meetingType[t] = type
              THEN /\ streams' = strs
                   /\ UNCHANGED <<fetch, answer, chatInbox, feedInbox, effectStream, probing,
                                  presenceVars>>
              ELSE /\ streams' = StopTracks(strs, CleanupStream(t))
                   /\ IF variant = "page"
                        THEN /\ chatInbox' = [chatInbox EXCEPT ![t] = JoinInbox(t)]
                             /\ feedInbox' = [feedInbox EXCEPT ![t] = <<>>]
                             /\ effectStream' = [effectStream EXCEPT ![t] = strm]
                             /\ fetch' = [fetch EXCEPT ![t] = TRUE]
                             /\ answer' = [answer EXCEPT ![t] = "none"]
                             /\ UNCHANGED <<probing, presenceVars>>
                        ELSE /\ HooksEffect(t, connection[t], type, strm)
                             /\ fetch' = [fetch EXCEPT ![t] = @ \/ connectionId[t] # id]
                             /\ answer' = [answer EXCEPT ![t] =
                                              IF connectionId[t] # id THEN "none" ELSE @]

\* ------------------------------------------------------------ Index page
\* Index.handleConnect: a signed-in user who does not own the skill asks for a
\* session; the row is inserted as pending
handleConnect(t) ==
  /\ route[t] = "index"
  /\ user(t) # skillInstructorId
  /\ \E id \in ConnIds :
       /\ store[id] = NoRow
       /\ \A j \in ConnIds : j < id => store[j] # NoRow
       /\ InsertRow(id, t)
  /\ UNCHANGED <<fixedVars, utilVars, responses, nSent, ends, streams, rtcVars>>

\* Index.handleConnectionResponse up to its await: the Accept / Reject button of
\* a listed request sends the update
handleConnectionResponse(t, id, accept) ==
  /\ route[t] = "index"
  /\ id \in connectionRequests[t]
  /\ <<id, accept>> \notin responses[t]
  /\ UpdateStatus(id, IF accept THEN "accepted" ELSE "rejected", t)
  /\ responses' = [responses EXCEPT ![t] = @ \cup {<<id, accept>>}]
  /\ UNCHANGED <<fixedVars, utilVars, nSent, ends, streams, rtcVars>>

\* Index.handleConnectionResponse after the await: the request leaves the list
\* and an acceptance navigates to the meeting
handleConnectionResponseReturn(t, id, accept) ==
  /\ <<id, accept>> \in responses[t]
  /\ responses' = [responses EXCEPT ![t] = @ \ {<<id, accept>>}]
  /\ connectionRequests' =
       [connectionRequests EXCEPT ![t] = IF accept THEN {} ELSE @ \ {id}]
  /\ IF accept
       THEN ToMeeting(t, id, "video", stream[t], streams)
       ELSE UNCHANGED <<routeVars, feedInbox, loadVars, messages, chatInbox, sends,
                        raised, mediaVars, presenceVars>>
  /\ UNCHANGED <<fixedVars, utilVars, store, nSent, ends, peerVars>>

\* ------------------------------------------------ Meeting: mount, unmount
\* the user opens /meeting/:id?type= from the Index page (address bar, or a
\* SkillCard's meeting-type menu)
openMeeting(t, id, type) ==
  /\ route[t] = "index"
  /\ Mount({t}, id, type)
  /\ connectionRequests' = [connectionRequests EXCEPT ![t] = {}]
  /\ feedInbox' = [feedInbox EXCEPT ![t] = <<>>]
  /\ UNCHANGED <<fixedVars, utilVars, store, responses, nSent, ends, streams, rtcVars>>

\* a pending navigate('/') rendered: the Meeting component unmounts (the cleanup
\* of its effect runs, its state is dropped) and Index mounts
\* (fetchConnectionRequests, connectionsChannel)
RenderLeave(t) ==
  /\ route[t] = "meeting"
  /\ leaving[t]
  /\ route' = [route EXCEPT ![t] = "index"]
  /\ connectionId' = [connectionId EXCEPT ![t] = 0]
  /\ meetingType' = [meetingType EXCEPT ![t] = "chat"]
  /\ leaving' = [leaving EXCEPT ![t] = FALSE]
  /\ connectionRequests' = [connectionRequests EXCEPT ![t] = PendingRequests(user(t))]
  /\ feedInbox' = [feedInbox EXCEPT ![t] = <<>>]
  /\ connection' = [connection EXCEPT ![t] = 0]
  /\ fetch' = [fetch EXCEPT ![t] = FALSE]
  /\ answer' = [answer EXCEPT ![t] = "none"]
  /\ outcome' = [outcome EXCEPT ![t] = "none"]
  /\ messages' = [messages EXCEPT ![t] = <<>>]
  /\ chatInbox' = [chatInbox EXCEPT ![t] = <<>>]
  /\ sends' = [sends EXCEPT ![t] = <<>>]
  /\ raised' = [raised EXCEPT ![t] = <<>>]
  /\ stream' = [stream EXCEPT ![t] = 0]
  /\ effectStream' = [effectStream EXCEPT ![t] = 0]
  /\ acquiring' = [acquiring EXCEPT ![t] = 0]
  /\ probing' = [probing EXCEPT ![t] = 0]
  /\ deviceError' = [deviceError EXCEPT ![t] = FALSE]
  /\ streams' = CloseView(StopTracks(streams, CleanupStream(t)), t)
  /\ peerStream' = [peerStream EXCEPT ![t] = FALSE]
  /\ pc' = [pc EXCEPT ![t].ofView = FALSE]
  /\ joining' = [joining EXCEPT ![t] = [c \in ConnIds |-> 0]]
  /\ entries' = [entries EXCEPT ![t] = [c \in ConnIds |-> 0]]
  /\ UNCHANGED <<fixedVars, utilVars, store, responses, nSent, ends, presence, presenceOn,
                 tracked, syncDue, observed, peers, sigInbox>>

\* the user leaves the Meeting page (back button, header link)
navigateAway(t) ==
  /\ route[t] = "meeting"
  /\ ~leaving[t]
  /\ leaving' = [leaving EXCEPT ![t] = TRUE]
  /\ UNCHANGED <<fixedVars, utilVars, store, route, connectionId, meetingType, indexVars,
                 feedInbox, loadVars, chatVars, raised, ends, mediaVars, rtcVars>>

\* ------------------------------------------------------ Meeting: the load
\* what fetchConnection does with the answer of its select
LoadOutcome(t) ==
  CASE SelectAccepted(connectionId[t]) = "none" -> "notfound"
    [] ~IsParticipant(connectionId[t], user(t)) -> "unauthorized"
    [] OTHER -> "loaded"

\* the select of fetchConnection is evaluated by the database, at some moment
\* between the call and the return of the `await`
fetchConnectionSelect(t) ==
  /\ route[t] = "meeting"
  /\ fetch[t]
  /\ answer[t] = "none"
  /\ answer' = [answer EXCEPT ![t] = LoadOutcome(t)]
  /\ UNCHANGED <<fixedVars, utilVars, store, routeVars, indexVars, feedInbox, connection,
                 fetch, outcome, chatVars, raised, ends, mediaVars, rtcVars>>

\* fetchConnection, from the answer of its select on.  Not found and
\* unauthorized toast and navigate('/').  Otherwise the record is stored; the
\* page then calls checkDevicePermissions (for a media type: enumerateDevices,
\* then startMediaStream, which stops the `stream` of its closure and asks
\* getUserMedia) and setupPresenceChannel; in the hooks variant the new
\* connection re-runs the Meeting effect.
fetchConnectionReturn(t) ==
  /\ route[t] = "meeting"
  /\ fetch[t]
  /\ answer[t] # "none"
  /\ fetch' = [fetch EXCEPT ![t] = FALSE]
  /\ answer' = [answer EXCEPT ![t] = "none"]
  /\ outcome' = [outcome EXCEPT ![t] = answer[t]]
  /\ IF answer[t] # "loaded"
       THEN /\ leaving' = [leaving EXCEPT ![t] = TRUE]
            /\ UNCHANGED <<connection, chatInbox, feedInbox, probing, presenceVars,
                           effectStream, streams, acquiring>>
       ELSE /\ leaving' = leaving
            /\ connection' = [connection EXCEPT ![t] = connectionId[t]]
            /\ IF variant = "page"
                 THEN /\ acquiring' = [acquiring EXCEPT ![t] =
                                         IF meetingType[t] # "chat" THEN Bump(@) ELSE @]
                      /\ streams' = IF meetingType[t] # "chat"
                                      THEN StopTracks(streams, CleanupStream(t))
                                      ELSE streams
                      /\ SetupPresence(t, connectionId[t], TRUE)
                      /\ UNCHANGED <<chatInbox, feedInbox, probing, effectStream>>
                 ELSE /\ HooksEffect(t, connectionId[t], meetingType[t], stream[t])
                      /\ streams' = StopTracks(streams, CleanupStream(t))
                      /\ acquiring' = acquiring
  /\ UNCHANGED <<fixedVars, utilVars, store, route, connectionId, meetingType, indexVars,
                 messages, sends, nSent, raised, ends, stream, deviceError, peerVars>>

\* the select of fetchConnection fails (`if (error) throw error`): the catch
\* toasts the error and navigates to '/'
fetchConnectionFails(t) ==
  /\ route[t] = "meeting"
  /\ fetch[t]
  /\ fetch' = [fetch EXCEPT ![t] = FALSE]
  /\ answer' = [answer EXCEPT ![t] = "none"]
  /\ outcome' = [outcome EXCEPT ![t] = "error"]
  /\ leaving' = [leaving EXCEPT ![t] = TRUE]
  /\ UNCHANGED <<fixedVars, utilVars, store, route, connectionId, meetingType, indexVars,
                 feedInbox, connection, chatVars, raised, ends, mediaVars, rtcVars>>

\* ------------------------------------------------------- Meeting: the chat
\* sendMessage up to its await: the message is broadcast on chat:<id> to the
\* message channels subscribed at that moment (a broadcast is not echoed to its
\* sender).  from and to record the tab that sent it and the tabs it reached
sendMessage(t) ==
  /\ UiShown(t)
  /\ meetingType[t] = "chat"
  /\ nSent < MaxMsgs
  /\ LET m == [sender_id |-> user(t), n |-> nSent + 1, from |-> t,
                to |-> ChatReceivers(t)] IN
     /\ chatInbox' = [u \in Tabs |->
                        IF u \in ChatReceivers(t)
                          THEN Append(chatInbox[u], m) ELSE chatInbox[u]]
     /\ sends' = [sends EXCEPT ![t] = Append(@, m)]
  /\ nSent' = nSent + 1
  /\ UNCHANGED <<fixedVars, utilVars, store, routeVars, indexVars, feedInbox, loadVars,
                 messages, raised, ends, mediaVars, rtcVars>>

\* sendMessage after its await: setMessages(prev => [...prev, message])
sendMessageReturn(t) ==
  /\ sends[t] # <<>>
  /\ messages' = [messages EXCEPT ![t] = Arrive(@, Head(sends[t]))]
  /\ sends' = [sends EXCEPT ![t] = Tail(@)]
  /\ UNCHANGED <<fixedVars, utilVars, store, routeVars, indexVars, feedInbox, loadVars,
                 chatInbox, nSent, raised, ends, mediaVars, rtcVars>>

\* the broadcast handler of messageChannel: setMessages(prev => [...prev, payload])
messageChannelEvent(t) ==
  /\ ChatSubscribed(t)
  /\ chatInbox[t] # <<>>
  /\ messages' = [messages EXCEPT ![t] = Arrive(@, Head(chatInbox[t]))]
  /\ chatInbox' = [chatInbox EXCEPT ![t] = Tail(@)]
  /\ UNCHANGED <<fixedVars, utilVars, store, routeVars, indexVars, feedInbox, loadVars,
                 sends, nSent, raised, ends, mediaVars, rtcVars>>

\* ------------------------------------------------ Meeting: the change feed
\* the handler of connectionChannel (filter id=eq.<connectionId>) for the next
\* event it acts on: toast "Meeting Ended", navigate('/')
connectionChannelEvent(t) ==
  /\ FeedSubscribed(t)
  /\ feedInbox[t] # <<>>
  /\ feedInbox' = [feedInbox EXCEPT ![t] = Tail(@)]
  /\ raised' = [raised EXCEPT ![t] = IF Len(@) < MaxRaised
                                     THEN Append(@, Head(feedInbox[t]).by) ELSE @]
  /\ leaving' = [leaving EXCEPT ![t] = TRUE]
  /\ UNCHANGED <<fixedVars, utilVars, store, route, connectionId, meetingType, indexVars,
                 loadVars, chatVars, ends, mediaVars, rtcVars>>

\* ------------------------------------------------------- Meeting: the end
\* endMeeting up to its await (`if (!connection) return`; then the update)
endMeeting(t) ==
  /\ UiShown(t)
  /\ Len(ends[t]) < MaxEnds
  /\ UpdateStatus(connectionId[t], "completed", t)
  /\ ends' = [ends EXCEPT ![t] = Append(@, stream[t])]
  /\ UNCHANGED <<fixedVars, utilVars, responses, nSent, streams, rtcVars>>

\* endMeeting after its await: the stream captured by the call is stopped (the
\* page's stopMediaStream also clears the slot that holds it), then
\* navigate('/'), which does nothing on the Index page
endMeetingReturn(t) ==
  /\ ends[t] # <<>>
  /\ ends' = [ends EXCEPT ![t] = Tail(@)]
  /\ streams' = StopTracks(streams, Head(ends[t]))
  /\ stream' = [stream EXCEPT ![t] =
                  IF variant = "page" /\ Head(ends[t]) # 0 /\ @ = Head(ends[t])
                    THEN 0 ELSE @]
  /\ leaving' = [leaving EXCEPT ![t] = (route[t] = "meeting")]
  /\ UNCHANGED <<fixedVars, utilVars, store, route, connectionId, meetingType, indexVars,
                 feedInbox, loadVars, chatVars, raised, effectStream, acquiring,
                 probing, deviceError, rtcVars>>

\* ------------------------------------------------------ Meeting: the media
\* switchMeetingType: the stream of the slot is stopped and the slot cleared,
\* then navigate to the same meeting with the other type
switchMeetingType(t, type) ==
  /\ UiShown(t)
  /\ type # meetingType[t]
  /\ ToMeeting(t, connectionId[t], type, 0, StopTracks(streams, stream[t]))
  /\ UNCHANGED <<fixedVars, utilVars, store, indexVars, nSent, ends, peerVars>>

\* the Start / Stop button of the media room.  With a stream: its tracks are
\* stopped and the slot cleared (page: stopMediaStream; hooks: handleMediaToggle,
\* whose setStream(null) re-runs the effect).  Without one: the page calls
\* checkDevicePermissions, handleMediaToggle calls startMediaStream; both end in
\* a getUserMedia whose stream is stored
handleMediaToggle(t) ==
  /\ UiShown(t)
  /\ meetingType[t] # "chat"
  /\ IF stream[t] # 0
       THEN /\ stream' = [stream EXCEPT ![t] = 0]
            /\ acquiring' = acquiring
            /\ IF variant = "page"
                 THEN /\ streams' = StopTracks(streams, stream[t])
                      /\ UNCHANGED <<chatInbox, feedInbox, probing, presenceVars,
                                     effectStream>>
                 ELSE /\ streams' = StopTracks(StopTracks(streams, stream[t]),
                                               CleanupStream(t))
                      /\ HooksEffect(t, connection[t], meetingType[t], 0)
       ELSE /\ acquiring' = [acquiring EXCEPT ![t] = Bump(@)]
            /\ UNCHANGED <<stream, streams, chatInbox, feedInbox, probing, presenceVars,
                           effectStream>>
  /\ UNCHANGED <<fixedVars, utilVars, store, routeVars, indexVars, loadVars, messages, sends,
                 nSent, raised, ends, deviceError, peerVars>>

\* getUserMedia of startMediaStream resolves: setStream(mediaStream) overwrites
\* the slot and setDeviceError(null) clears the error.  In the hooks variant
\* handleMediaToggle then calls
\* setupPeerConnection and drops the cleanup function it returns, and the new
\* stream re-runs the effect
getUserMediaGranted(t) ==
  /\ route[t] = "meeting"
  /\ acquiring[t] > 0
  /\ Len(streams) < MaxAcquire
  /\ acquiring' = [acquiring EXCEPT ![t] = @ - 1]
  /\ stream' = [stream EXCEPT ![t] = Len(streams) + 1]
  /\ IF variant = "page"
       THEN /\ streams' = Append(streams, NewStream(t))
            /\ UNCHANGED <<chatInbox, feedInbox, probing, presenceVars, effectStream,
                           peerVars>>
       ELSE /\ streams' = Append(StopTracks(streams, CleanupStream(t)), NewStream(t))
            /\ SetupPeer(t, connection[t] # 0 /\ ~peerStream[t])
            /\ HooksEffect(t, connection[t], meetingType[t], Len(streams) + 1)
  /\ deviceError' = [deviceError EXCEPT ![t] = FALSE]
  /\ UNCHANGED <<fixedVars, utilVars, store, routeVars, indexVars, loadVars, messages, sends,
                 nSent, raised, ends>>

\* getUserMedia of startMediaStream rejects (no device, permission denied, in
\* use): the error is shown, nothing is acquired
getUserMediaDenied(t) ==
  /\ route[t] = "meeting"
  /\ acquiring[t] > 0
  /\ acquiring' = [acquiring EXCEPT ![t] = @ - 1]
  /\ ShowDeviceError(t)
  /\ UNCHANGED <<fixedVars, utilVars, store, route, connectionId, meetingType, indexVars,
                 feedInbox, loadVars, chatVars, raised, ends, stream, effectStream,
                 streams, probing, rtcVars>>

\* mediaUtils.checkDevicePermissions (hooks variant): its getUserMedia resolves;
\* the stream is used for the permission prompt only and is referenced nowhere
checkDevicePermissionsGranted(t) ==
  /\ route[t] = "meeting"
  /\ probing[t] > 0
  /\ Len(streams) < MaxAcquire
  /\ probing' = [probing EXCEPT ![t] = @ - 1]
  /\ streams' = Append(streams, NewStream(t))
  /\ UNCHANGED <<fixedVars, utilVars, store, routeVars, indexVars, feedInbox, loadVars,
                 chatVars, raised, ends, stream, effectStream, acquiring, deviceError,
                 rtcVars>>

\* mediaUtils.checkDevicePermissions (hooks variant): its getUserMedia rejects;
\* the effect's .then(({ error }) => { if (error) setDeviceError(error) })
checkDevicePermissionsDenied(t) ==
  /\ route[t] = "meeting"
  /\ probing[t] > 0
  /\ probing' = [probing EXCEPT ![t] = @ - 1]
  /\ ShowDeviceError(t)
  /\ UNCHANGED <<fixedVars, utilVars, store, route, connectionId, meetingType, indexVars,
                 feedInbox, loadVars, chatVars, raised, ends, stream, effectStream,
                 streams, acquiring, rtcVars>>

\* ---------------------------------------------------- Meeting: presence
\* presenceUtils.setupPresenceChannel, the subscribe callback on SUBSCRIBED:
\* presenceChannel.track(presence).  The topic's state gains the entry and every
\* channel joined to the topic is sent a sync
presenceTrack(t, c) ==
  /\ TracksPresence
  /\ c \in presenceOn[t]
  /\ c \notin tracked[t] \/ joining[t][c] > 0
  /\ tracked' = [tracked EXCEPT ![t] = @ \cup {c}]
  /\ IF joining[t][c] > 0
       THEN /\ joining' = [joining EXCEPT ![t][c] = @ - 1]
            /\ entries' = [entries EXCEPT ![t][c] = @ + 1]
       ELSE UNCHANGED <<joining, entries>>
  /\ syncDue' = [u \in Tabs |-> IF c \in presenceOn[u] THEN syncDue[u] \cup {c}
                                ELSE syncDue[u]]
  /\ UNCHANGED <<fixedVars, utilVars, store, routeVars, indexVars, feedInbox, loadVars,
                 chatVars, raised, ends, mediaVars, presence, presenceOn, observed,
                 peerVars>>

\* the 'sync' handler of a presence channel: it reads presenceState() and calls
\* onPresenceChange(state) if the caller gave one
presenceSync(t, c) ==
  /\ c \in syncDue[t]
  /\ syncDue' = [syncDue EXCEPT ![t] = @ \ {c}]
  /\ observed' = IF OnPresenceChangeGiven
                   THEN [observed EXCEPT ![t] = PresenceState(c)]
                   ELSE observed
  /\ UNCHANGED <<fixedVars, utilVars, store, routeVars, indexVars, feedInbox, loadVars,
                 chatVars, raised, ends, mediaVars, presence, presenceOn, tracked,
                 joining, entries, peerVars>>

\* --------------------------------------------------- Meeting: signaling
\* setupPeerConnection of the instructor, after setLocalDescription(offer): the
\* offer is sent on the channel, which is not subscribed yet
publishOffer(t) ==
  /\ pc[t].phase = "described"
  /\ Publish(t, "offer")
  /\ pc' = [pc EXCEPT ![t].phase = "offered"]
  /\ UNCHANGED <<fixedVars, utilVars, store, routeVars, indexVars, feedInbox, loadVars,
                 chatVars, raised, ends, mediaVars, presenceVars, peers, peerStream>>

\* setupPeerConnection of the instructor, after the await of the offer's send:
\* signalingChannel.on(...).subscribe()
subscribeSignaling(t) ==
  /\ pc[t].phase = "offered"
  /\ pc' = [pc EXCEPT ![t].phase = "subscribed"]
  /\ UNCHANGED <<fixedVars, utilVars, store, routeVars, indexVars, feedInbox, loadVars,
                 chatVars, raised, ends, mediaVars, presenceVars, peers, sigInbox,
                 peerStream>>

\* peerConnection.onicecandidate: a gathered candidate is sent on the channel
publishCandidate(t) ==
  /\ pc[t].cands > 0
  /\ Publish(t, "ice-candidate")
  /\ pc' = [pc EXCEPT ![t].cands = @ - 1]
  /\ UNCHANGED <<fixedVars, utilVars, store, routeVars, indexVars, feedInbox, loadVars,
                 chatVars, raised, ends, mediaVars, presenceVars, peers, peerStream>>

\* the offer handler after its awaits: the answer is sent on the channel
publishAnswer(t) ==
  /\ pc[t].answerDue
  /\ Publish(t, "answer")
  /\ pc' = [pc EXCEPT ![t].answerDue = FALSE]
  /\ UNCHANGED <<fixedVars, utilVars, store, routeVars, indexVars, feedInbox, loadVars,
                 chatVars, raised, ends, mediaVars, presenceVars, peers, peerStream>>

\* the signaling channel hands the next broadcast to its handler; a remote
\* description set on the connection fires ontrack, whose setPeerStream fills the
\* slot of the view if it is still mounted
signalingEvent(t) ==
  /\ pc[t].phase = "subscribed"
  /\ sigInbox[t] # <<>>
  /\ LET p == OnSignal(pc[t], Head(sigInbox[t]), user(t)) IN
     /\ pc' = [pc EXCEPT ![t] = p]
     /\ peerStream' = [peerStream EXCEPT ![t] =
                         @ \/ (route[t] = "meeting" /\ p.remote # pc[t].remote)]
  /\ sigInbox' = [sigInbox EXCEPT ![t] = Tail(@)]
  /\ UNCHANGED <<fixedVars, utilVars, store, routeVars, indexVars, feedInbox, loadVars,
                 chatVars, raised, ends, mediaVars, presenceVars, peers>>

\* peerConnection.onconnectionstatechange for the new state s: once both
\* descriptions are set the ICE transport connects or fails.  The handler logs
\* the state and shows what NoticeOf gives
connectionStateChange(t, s) ==
  /\ pc[t].local # "none" /\ pc[t].remote # "none"
  /\ s # pc[t].state
  /\ pc' = [pc EXCEPT ![t].state = s, ![t].logged = s, ![t].notice = NoticeOf(pc[t], s)]
  /\ UNCHANGED <<fixedVars, utilVars, store, routeVars, indexVars, feedInbox, loadVars,
                 chatVars, raised, ends, mediaVars, presenceVars, peers, sigInbox,
                 peerStream>>

\* ------------------------------------------------------------------- Next
\* the Index page
IndexStep(t) ==
  \/ handleConnect(t)
  \/ \E id \in ConnIds, accept \in BOOLEAN :
       \/ handleConnectionResponse(t, id, accept)
       \/ handleConnectionResponseReturn(t, id, accept)

\* mount, load and unmount of the Meeting page
ViewStep(t) ==
  \/ \E id \in ConnIds, type \in MeetingTypes : openMeeting(t, id, type)
  \/ RenderLeave(t)
  \/ navigateAway(t)
  \/ fetchConnectionSelect(t)
  \/ fetchConnectionReturn(t)
  \/ fetchConnectionFails(t)

\* the change feed and the end of the meeting
FeedStep(t) ==
  \/ connectionChannelEvent(t)
  \/ endMeeting(t)
  \/ endMeetingReturn(t)

\* the chat
ChatStep(t) ==
  \/ sendMessage(t)
  \/ sendMessageReturn(t)
  \/ messageChannelEvent(t)

\* the media room
MediaStep(t) ==
  \/ \E type \in MeetingTypes : switchMeetingType(t, type)
  \/ handleMediaToggle(t)
  \/ getUserMediaGranted(t)
  \/ getUserMediaDenied(t)
  \/ checkDevicePermissionsGranted(t)
  \/ checkDevicePermissionsDenied(t)

\* the presence channel
PresenceStep(t) ==
  \E c \in ConnIds : presenceTrack(t, c) \/ presenceSync(t, c)

\* the negotiation of the peer connection over the signaling channel
SignalStep(t) ==
  \/ publishOffer(t)
  \/ subscribeSignaling(t)
  \/ publishCandidate(t)
  \/ publishAnswer(t)
  \/ signalingEvent(t)

\* the connection state of the peer connection
StateStep(t) == \E s \in {"connected", "failed"} : connectionStateChange(t, s)

\* the negotiation of the two descriptions, without the ICE candidates
DescriptionStep(t) ==
  \/ publishOffer(t)
  \/ subscribeSignaling(t)
  \/ publishAnswer(t)
  \/ signalingEvent(t)

\* starting and stopping the media of the media room with every getUserMedia
\* granted
StartStep(t) ==
  \/ handleMediaToggle(t)
  \/ getUserMediaGranted(t)

\* starting and stopping the media of the media room
ToggleStep(t) ==
  \/ handleMediaToggle(t)
  \/ getUserMediaGranted(t)
  \/ getUserMediaDenied(t)

Next ==
  \E t \in Tabs :
    \/ IndexStep(t) \/ ViewStep(t) \/ FeedStep(t) \/ ChatStep(t) \/ MediaStep(t)
    \/ PresenceStep(t) \/ SignalStep(t) \/ StateStep(t)

Spec == Init /\ [][Next]_vars

NextSession == \E t \in Tabs : IndexStep(t) \/ ViewStep(t) \/ FeedStep(t)

SpecSession == Init /\ [][NextSession]_vars

NextChat == \E t \in Tabs : ViewStep(t) \/ ChatStep(t)

SpecChat == Init /\ [][NextChat]_vars

NextMedia == \E t \in Tabs : ViewStep(t) \/ MediaStep(t)

SpecMedia == Init /\ [][NextMedia]_vars

\* the presence channels of a view whose setup effect runs again: on a switch
\* of the meeting type and on a start or a stop of the media
NextEntries ==
  \E t \in Tabs :
    \/ ViewStep(t) \/ PresenceStep(t) \/ StartStep(t)
    \/ \E type \in MeetingTypes : switchMeetingType(t, type)
SpecEntries == Init /\ [][NextEntries]_vars

NextPresence == \E t \in Tabs : ViewStep(t) \/ PresenceStep(t)

\* the realtime connection delivers what it holds: every step of a presence
\* channel that stays possible is taken
SpecPresence ==
  Init /\ [][NextPresence]_vars /\ \A t \in Tabs : WF_vars(PresenceStep(t))

NextSignal == \E t \in Tabs : ViewStep(t) \/ StartStep(t) \/ SignalStep(t)

\* every continuation of setupPeerConnection and every delivery of the
\* signaling channel that stays possible is taken
SpecSignal ==
  Init /\ [][NextSignal]_vars /\ \A t \in Tabs : WF_vars(SignalStep(t))

NextFailure ==
  \E t \in Tabs :
    ViewStep(t) \/ ToggleStep(t) \/ DescriptionStep(t) \/ StateStep(t)

\* media and negotiation with their failures: a denied or failed getUserMedia and
\* a peer connection whose state becomes failed
SpecFailure == Init /\ [][NextFailure]_vars


\* the load and the change feed of the views: a view is opened, its select is
\* answered and returns, a delivered feed event is handled, a meeting is ended
\* and a pending navigation is rendered
WatchStep(t) ==
  \/ \E id \in ConnIds, type \in MeetingTypes : openMeeting(t, id, type)
  \/ fetchConnectionSelect(t)
  \/ fetchConnectionReturn(t)
  \/ RenderLeave(t)

NextWatch == \E t \in Tabs : WatchStep(t) \/ FeedStep(t)

\* a request sent to the database is answered and returns, a delivered event
\* runs its handler and React renders a pending navigation; what the user does
\* (open, end) is not forced
WatchFairness(t) ==
  /\ WF_vars(fetchConnectionSelect(t))
  /\ WF_vars(fetchConnectionReturn(t))
  /\ WF_vars(connectionChannelEvent(t))
  /\ WF_vars(endMeetingReturn(t))
  /\ WF_vars(RenderLeave(t))

SpecWatch == Init /\ [][NextWatch]_vars /\ \A t \in Tabs : WatchFairness(t)

\* ===================================================== the utilities
\* The specifications below exercise one module of src/utils (or the naming
\* of the channels) on inputs drawn by their initial predicate; the
\* application is at rest.
appVars == <<fixedVars, store, routeVars, indexVars, feedInbox, loadVars, chatVars,
             raised, ends, mediaVars, rtcVars>>

AppAtRest ==
  /\ AppInit
  /\ variant = "page"
  /\ userOf = [t \in Tabs |-> IF t = "t1" THEN skillInstructorId ELSE "lrn"]
  /\ \A id \in ConnIds : store[id].status = "accepted"

SeqsUpTo(S, n) == UNION {[1..k -> S] : k \in 0..n}

\* ------------------------------------------------- realtime: the topics
\* the handlers subscribed when the message is sent
InitTopics ==
  /\ AppAtRest
  /\ routing \in {[subs |-> {Subscription(h[1], h[2]) : h \in H},
                   msg |-> NoMessage, delivered |-> {}] :
                     H \in {G \in SUBSET (SubscribeTags \X Sessions) :
                              Cardinality(G) <= MaxSubs}}
  /\ presenceCall = PresenceCallIdle
  /\ trackSlot = TrackSlotIdle
  /\ mediaCall = MediaCallIdle
  /\ leaveCall = LeaveCallIdle

\* a component of a session sends on its channel (chat message, signaling
\* message, stream announcement, presence track) or the row of the session
\* changes: the server hands the message to the subscriptions it routes to
channelSend(tag, id) ==
  /\ routing.msg = NoMessage
  /\ routing' = [routing EXCEPT
                   !.msg = Message(tag, id),
                   !.delivered = {h \in routing.subs : Routes(Message(tag, id), h)}]
  /\ UNCHANGED <<appVars, presenceCall, trackSlot, mediaCall, leaveCall>>

NextTopics == \E tag \in PublishTags, id \in Sessions : channelSend(tag, id)

SpecTopics == InitTopics /\ [][NextTopics]_vars

\* ------------------------------------------- presenceUtils: the handlers
InitPresenceCall ==
  /\ AppAtRest
  /\ presenceCall \in {[given |-> g, due |-> d, handled |-> <<>>, invoked |-> <<>>] :
                         g \in BOOLEAN, d \in SeqsUpTo(PresenceEvents, MaxEvents)}
  /\ routing = RoutingIdle
  /\ trackSlot = TrackSlotIdle
  /\ mediaCall = MediaCallIdle
  /\ leaveCall = LeaveCallIdle

\* the channel runs the handler bound to its next presence event
presenceEvent ==
  /\ presenceCall.due # <<>>
  /\ presenceCall' = [presenceCall EXCEPT
                        !.due = Tail(@),
                        !.handled = Append(@, Head(presenceCall.due)),
                        !.invoked = OnPresenceEvent(presenceCall, Head(presenceCall.due))]
  /\ UNCHANGED <<appVars, routing, trackSlot, mediaCall, leaveCall>>

NextPresenceCall == presenceEvent

SpecPresenceCall == InitPresenceCall /\ [][NextPresenceCall]_vars

\* ------------------------------------------------ webRTCUtils: ontrack
InitTrack ==
  /\ AppAtRest
  /\ trackSlot \in {[due |-> d, slot |-> "null", handled |-> 0] :
                      d \in SeqsUpTo(TrackEvents, MaxTracks)}
  /\ routing = RoutingIdle
  /\ presenceCall = PresenceCallIdle
  /\ mediaCall = MediaCallIdle
  /\ leaveCall = LeaveCallIdle

\* the peer connection fires ontrack for its next remote track
trackEvent ==
  /\ trackSlot.due # <<>>
  /\ trackSlot' = [due |-> Tail(trackSlot.due),
                   slot |-> OnTrack(Head(trackSlot.due)),
                   handled |-> trackSlot.handled + 1]
  /\ UNCHANGED <<appVars, routing, presenceCall, mediaCall, leaveCall>>

NextTrack == trackEvent

SpecTrack == InitTrack /\ [][NextTrack]_vars

\* ------------------------------------- Meeting page: the leave handler
\* the view of a participant of the session (learner "lrn") with its presence
\* channel subscribed; the topic holds up to MaxKeyEntries entries a key
InitLeaveCall ==
  /\ AppAtRest
  /\ leaveCall \in {[userId |-> u, state |-> st, handled |-> 0, key |-> "none",
                      cleared |-> FALSE] :
                       u \in {skillInstructorId, "lrn"},
                       st \in [PresenceKeys -> 0..MaxKeyEntries]}
  /\ routing = RoutingIdle
  /\ presenceCall = PresenceCallIdle
  /\ trackSlot = TrackSlotIdle
  /\ mediaCall = MediaCallIdle

\* an entry of key k leaves the topic: the channel fires 'leave' with that key
\* and the handler runs; state is what presenceState() holds afterwards
presenceLeave(k) ==
  /\ leaveCall.state[k] > 0
  /\ leaveCall' = [leaveCall EXCEPT
                     !.state[k] = @ - 1,
                     !.handled = @ + 1,
                     !.key = k,
                     !.cleared = OnPresenceLeave(leaveCall.userId, "lrn",
                                                 skillInstructorId, k)]
  /\ UNCHANGED <<appVars, routing, presenceCall, trackSlot, mediaCall>>

NextLeaveCall == \E k \in PresenceKeys : presenceLeave(k)

SpecLeaveCall == InitLeaveCall /\ [][NextLeaveCall]_vars

\* ------------------------------------------------ mediaUtils: the calls
InitDevices ==
  /\ AppAtRest
  /\ mediaCall \in {[fn |-> f, type |-> ty, hasVideo |-> v, hasAudio |-> a,
                      gum |-> g, result |-> NoResult] :
                       f \in MediaFunctions, ty \in {"video", "audio"},
                       v \in BOOLEAN, a \in BOOLEAN, g \in GumOutcomes}
  /\ routing = RoutingIdle
  /\ presenceCall = PresenceCallIdle
  /\ trackSlot = TrackSlotIdle
  /\ leaveCall = LeaveCallIdle

startMediaStream ==
  /\ mediaCall.fn = "startMediaStream"
  /\ mediaCall.result = NoResult
  /\ mediaCall' = [mediaCall EXCEPT !.result = StartMediaStreamResult(mediaCall)]
  /\ UNCHANGED <<appVars, routing, presenceCall, trackSlot, leaveCall>>

checkDevicePermissions ==
  /\ mediaCall.fn = "checkDevicePermissions"
  /\ mediaCall.result = NoResult
  /\ mediaCall' = [mediaCall EXCEPT !.result = CheckDevicePermissionsResult(mediaCall)]
  /\ UNCHANGED <<appVars, routing, presenceCall, trackSlot, leaveCall>>

NextDevices == startMediaStream \/ checkDevicePermissions

SpecDevices == InitDevices /\ [][NextDevices]_vars
\* ------------------------------------------------------------ properties
\* the row of the meeting that tab t shows
Row(t) == store[connectionId[t]]

\* the user of tab t is the learner of row r or the instructor of its skill
Participant(t, r) == userOf[t] = r.learner_id \/ userOf[t] = skillInstructorId

\* C1: a load stores the session only if the record exists with status accepted
\* when the select reads it and the caller is its learner or the instructor of
\* its skill; an absent or non-accepted record gives the not-found outcome, a
\* caller who is no participant the unauthorized outcome, and both (as a failed
\* select) leave the stored record as it was and exit to the default view
C1_LoadStoresOnlyForParticipants ==
  [][\A t \in Tabs :
       /\ (answer[t] = "none" /\ answer'[t] # "none") =>
            \/ /\ answer'[t] = "loaded"
               /\ Row(t).status = "accepted"
               /\ Participant(t, Row(t))
            \/ /\ answer'[t] = "notfound"
               /\ Row(t).status # "accepted"
            \/ /\ answer'[t] = "unauthorized"
               /\ Row(t).status = "accepted"
               /\ ~Participant(t, Row(t))
       /\ (fetch[t] /\ ~fetch'[t] /\ route'[t] = "meeting") =>
            \/ /\ outcome'[t] = "loaded"
               /\ answer[t] = "loaded"
               /\ connection'[t] = connectionId[t]
            \/ /\ outcome'[t] \in {"notfound", "unauthorized"}
               /\ answer[t] = outcome'[t]
               /\ connection'[t] = connection[t]
               /\ leaving'[t]
            \/ /\ outcome'[t] = "error"
               /\ connection'[t] = connection[t]
               /\ leaving'[t]]_vars

\* a third user's load of an accepted session has returned unauthorized, with
\* nothing stored and the exit pending, while a participant's load has stored it
C1_Witness ==
  \E t, u \in Tabs :
    /\ route[t] = "meeting" /\ outcome[t] = "unauthorized"
    /\ connection[t] = 0 /\ leaving[t]
    /\ route[u] = "meeting" /\ outcome[u] = "loaded" /\ connection[u] = connectionId[u]

\* C2: a caller who is neither the learner nor the instructor of a session
\* never has its record stored in the view nor a chat message of its topic in
\* the message list, at any moment of the visit
C2_ThirdPartyObservesNothing ==
  \A t \in Tabs :
    (route[t] = "meeting" /\ Row(t) # NoRow /\ ~Participant(t, Row(t))) =>
      connection[t] = 0 /\ messages[t] = <<>>

\* C3: an endMeeting call on a session that is already completed changes
\* nothing in the store and sends no further update event to any subscription
C3_SecondEndIsSilent ==
  [][\A t \in Tabs :
       (Len(ends'[t]) > Len(ends[t]) /\ Row(t).status = "completed") =>
         store' = store /\ feedInbox' = feedInbox]_vars

\* C4: once the status of a row is rejected or completed, no step changes it
C4_TerminalStatusIsFinal ==
  [][\A id \in ConnIds :
       store[id].status \in {"rejected", "completed"} =>
         store'[id].status = store[id].status]_vars

\* C5: the status of a row changes to accepted or rejected only in a response
\* made by the instructor of the skill, and to completed only in an endMeeting
\* call of a participant whose view holds the loaded session; otherwise it
\* changes only by the insert that creates the row as pending
C5_StatusChangedByRightParty ==
  [][\A id \in ConnIds :
       store'[id].status # store[id].status =>
         CASE store'[id].status \in {"accepted", "rejected"} ->
                \E t \in Tabs : /\ userOf[t] = skillInstructorId
                                /\ responses[t] \subseteq responses'[t]
                                /\ responses'[t] # responses[t]
           [] store'[id].status = "completed" ->
                \E t \in Tabs : /\ Len(ends'[t]) > Len(ends[t])
                                /\ connection[t] = id
                                /\ Participant(t, store[id])
           [] OTHER -> store[id] = NoRow /\ store'[id].status = "pending"]_vars

\* the instructor's acceptance is still awaiting its continuation while the
\* session it accepted has been completed by an endMeeting call in flight
C5_Witness ==
  \E id \in ConnIds, t, u \in Tabs :
    /\ store[id].status = "completed"
    /\ <<id, TRUE>> \in responses[t]
    /\ ends[u] # <<>>
    /\ connection[u] = id

\* C6: a Meeting view raises the termination ("Meeting Ended" and the exit) at
\* most once
C6_TerminationRaisedOnce == \A t \in Tabs : Len(raised[t]) <= 1

\* C7: a Meeting view raises no termination for a status change that its own
\* tab wrote
C7_NoTerminationForOwnChange ==
  \A t \in Tabs : \A i \in DOMAIN raised[t] : raised[t][i] # t

\* C8: a Meeting view that raised the termination for the other participant's
\* end has, once it is left, no presence channel, no peer connection and no
\* live media track of its own
C8_TerminatedViewReleasesAll ==
  [][\A t \in Tabs :
       (/\ route[t] = "meeting"
        /\ raised[t] # <<>>
        /\ raised[t][1] # t
        /\ Row(t).status = "completed"
        /\ route'[t] = "index") =>
         /\ presence'[t] = 0
         /\ peers'[t] = 0
         /\ \A k \in DOMAIN streams' : streams'[k].owner = t => ~streams'[k].live]_vars

\* C9: no media stream whose view has been left has live tracks
C9_ClosedViewHasNoLiveTrack ==
  \A k \in DOMAIN streams : streams[k].closed => ~streams[k].live

\* C10: a tab that shows the Index page holds no open peer connection (with its
\* signaling subscription)
C10_NoPeerConnectionOutlivesView ==
  \A t \in Tabs : route[t] = "index" => peers[t] = 0

\* C11: a tab that has left its Meeting view holds no subscribed presence
\* channel and no tracked presence entry: the view withdrew its presence itself
C11_PresenceWithdrawnOnExit ==
  \A t \in Tabs :
    route[t] = "index" => presence[t] = 0 /\ presenceOn[t] = {} /\ tracked[t] = {}

\* the instructor has started media and published its offer while the learner
\* has not set up a peer connection yet
InstructorStartedFirst ==
  \E i, l \in Tabs :
    /\ IsInitiator(i) /\ ~IsInitiator(l)
    /\ pc[i].phase \in {"offered", "subscribed"}
    /\ pc[l].phase = "none"

\* both participants are in the Meeting view with their media on and the peer
\* connection that view set up
BothInMediaRoom ==
  \A t \in Tabs :
    route[t] = "meeting" /\ ~leaving[t] /\ stream[t] # 0 /\ pc[t].ofView

\* both peer connections have a local and a remote description and each view
\* exposes the peer's stream
BothConnected ==
  \A t \in Tabs : pc[t].local # "none" /\ pc[t].remote # "none" /\ peerStream[t]

\* C12: if the instructor starts media first and the learner afterwards, and
\* from some point on both stay in the media room, then eventually both peer
\* connections are negotiated and each view exposes the other's stream
C12_InstructorFirstConnects ==
  (<>InstructorStartedFirst /\ <>[]BothInMediaRoom) => <>BothConnected

\* C13: no ICE candidate received from the peer is dropped, whatever the order
\* of candidate, offer and answer
C13_NoCandidateDropped == \A t \in Tabs : pc[t].dropped = 0

\* C14: when a participant publishes its answer to an offer, the initiator
\* that published the offer has its signaling channel subscribed: it is not
\* between the send of its offer and its subscription, where the answer would
\* pass it by
C14_OfferAfterOwnSubscription ==
  [][\A t \in Tabs :
       (pc[t].answerDue /\ pc'[t] = [pc[t] EXCEPT !.answerDue = FALSE]) =>
         \A u \in Tabs :
           (IsInitiator(u) /\ pc[u].id = pc[t].id) => pc[u].phase # "offered"]_vars

\* the last broadcast appended to the signaling channel of tab u in this step,
\* if one was
Appended(u, event) ==
  /\ Len(sigInbox'[u]) = Len(sigInbox[u]) + 1
  /\ sigInbox'[u][Len(sigInbox'[u])].event = event

Sender(u) == sigInbox'[u][Len(sigInbox'[u])].userId

\* C15: every step that publishes an offer is taken by the instructor of the
\* skill on a peer connection whose local description is that offer, and every
\* offer delivered to a participant comes from such a step and carries the
\* instructor's id as sender
C15_OnlyInstructorOffers ==
  [][/\ \A t \in Tabs :
          (pc[t].phase = "described" /\ pc'[t].phase = "offered") =>
            user(t) = skillInstructorId /\ pc[t].local = "offer"
     /\ \A u \in Tabs :
          Appended(u, "offer") =>
            /\ Sender(u) = skillInstructorId
            /\ \E t \in Tabs \ {u} :
                 /\ user(t) = Sender(u)
                 /\ pc[t].phase = "described" /\ pc'[t].phase = "offered"]_vars

\* an offer of the instructor is on its way to the learner's signaling channel
C15_Witness ==
  \E u \in Tabs : /\ user(u) # skillInstructorId
                   /\ \E i \in DOMAIN sigInbox[u] : sigInbox[u][i].event = "offer"

\* C16: an answer becomes due only in the step that handles an offer of the
\* other participant, which sets the offer as remote and the answer as local
\* description; an answer is published only while it is due, by a connection
\* holding both descriptions, tagged with the publisher's id
C16_AnswerOnlyToReceivedOffer ==
  [][/\ \A t \in Tabs :
          (~pc[t].answerDue /\ pc'[t].answerDue) =>
            /\ sigInbox[t] # <<>>
            /\ Head(sigInbox[t]).event = "offer"
            /\ Head(sigInbox[t]).userId # user(t)
            /\ pc'[t].remote = "offer" /\ pc'[t].local = "answer"
     /\ \A t \in Tabs :
          pc[t].answerDue => pc[t].remote = "offer" /\ pc[t].local = "answer"
     /\ \A u \in Tabs :
          Appended(u, "answer") =>
            \E t \in Tabs \ {u} :
              /\ user(t) = Sender(u)
              /\ pc[t].answerDue /\ ~pc'[t].answerDue]_vars

\* the learner's answer to the instructor's offer is on its way to the
\* instructor's signaling channel
C16_Witness ==
  \E u \in Tabs : /\ pc[u].local = "offer"
                   /\ \E i \in DOMAIN sigInbox[u] :
                        /\ sigInbox[u][i].event = "answer"
                        /\ sigInbox[u][i].userId # user(u)

\* C17: a step in which a signaling channel hands its handlers a broadcast
\* whose sender is the receiving user leaves that user's peer connection and
\* peer stream as they were and makes no answer due
C17_OwnBroadcastIgnored ==
  [][\A t \in Tabs :
       (/\ sigInbox[t] # <<>>
        /\ Head(sigInbox[t]).userId = user(t)
        /\ sigInbox'[t] = Tail(sigInbox[t])
        /\ pc[t].phase = "subscribed" /\ pc'[t].phase = "subscribed") =>
         /\ [pc'[t] EXCEPT !.echo = FALSE] = [pc[t] EXCEPT !.echo = FALSE]
         /\ ~pc'[t].answerDue
         /\ peerStream'[t] = peerStream[t]]_vars

\* a signaling channel has handed its handlers a broadcast of the user's own
\* (sent from the user's other tab)
C17_Witness == \E t \in Tabs : pc[t].echo

\* C18: a step that creates a peer connection in a tab is taken when the view
\* that is mounted there has no peer connection of its own still open
C18_OnePeerConnectionPerView ==
  [][\A t \in Tabs : peers'[t] > peers[t] => ~pc[t].ofView]_vars

\* C19: a chat message whose broadcast has been handed to the channel is in the
\* sender's own message list, whether or not the broadcast has completed
C19_OwnMessageShownAtOnce ==
  \A t \in Tabs : \A i \in DOMAIN sends[t] :
    \E k \in DOMAIN messages[t] : messages[t][k] = sends[t][i]

\* both tabs stay in the Meeting view of session c with their presence channel
\* of that session subscribed
BothJoined(c) ==
  \A t \in Tabs : route[t] = "meeting" /\ connectionId[t] = c /\ c \in presenceOn[t]

\* the presence change callback of every tab was handed a state that holds an
\* entry for each of the two participants
BothObserved == \A t \in Tabs : {userOf[u] : u \in Tabs} \subseteq observed[t]

\* C20: if both participants have joined the presence topic of a session and
\* stay, then eventually the presence change callback of each was invoked with
\* a state that holds both entries
C20_BothObserveBoth == \A c \in ConnIds : <>[]BothJoined(c) => <>BothObserved

\* C23: every message in a tab's message list was sent by that tab or was
\* broadcast while the tab's message channel was subscribed: a channel
\* subscribed after the broadcast is never handed it
C23_NoHistoryForLateSubscriber ==
  \A t \in Tabs : \A i \in DOMAIN messages[t] :
    messages[t][i].from = t \/ t \in messages[t][i].to

\* a message was broadcast while the other tab was not subscribed, and that tab
\* is now in the loaded view of the session with its channel subscribed
C23_Witness ==
  \E t, u \in Tabs : \E i \in DOMAIN messages[t] :
    /\ messages[t][i].from = t
    /\ u # t /\ u \notin messages[t][i].to
    /\ ChatSubscribed(u) /\ connection[u] # 0 /\ connection[u] = connection[t]

\* list a is an initial part of list b
IsPrefix(a, b) == Len(a) <= Len(b) /\ \A i \in DOMAIN a : a[i] = b[i]

\* C24: while a view stays open its message list only grows at its end, and
\* the messages of one sender are in it in the order of their sending
C24_ArrivalOrderAppendOnly ==
  [][\A t \in Tabs :
       /\ (route[t] = "meeting" /\ route'[t] = "meeting") =>
            IsPrefix(messages[t], messages'[t])
       /\ \A i, j \in DOMAIN messages'[t] :
            (i < j /\ messages'[t][i].from = messages'[t][j].from) =>
              messages'[t][i].n < messages'[t][j].n]_vars

\* a view lists two messages of the other participant
C24_Witness ==
  \E t \in Tabs :
    /\ Len(messages[t]) = 2
    /\ messages[t][1].from # t /\ messages[t][2].from = messages[t][1].from

\* the media streams a tab acquired in the view it shows whose tracks are live
LiveStreams(t) ==
  {k \in DOMAIN streams : streams[k].owner = t /\ streams[k].live /\ ~streams[k].closed}

\* C30: a Meeting view has at most one acquired media stream with live tracks
C30_OneLiveStreamPerView == \A t \in Tabs : Cardinality(LiveStreams(t)) <= 1


(***************************************************************************)
(* C21: a device error (a denied or failed acquisition, a failed device    *)
(* probe) or a peer connection reaching state failed is local to the view: *)
(* the step that raises it leaves every session record as it was, keeps    *)
(* the view on its route with no navigation pending, keeps the loaded      *)
(* record, the messages shown and the chat subscription, so the status     *)
(* stays accepted, the view stays open and chat stays possible.            *)
(***************************************************************************)
DeviceErrorRaised(t) == ~deviceError[t] /\ deviceError'[t]

NegotiationFailed(t) == pc[t].state # "failed" /\ pc'[t].state = "failed"

ErrorIsLocal(t) ==
  /\ store' = store
  /\ route'[t] = route[t]
  /\ connectionId'[t] = connectionId[t]
  /\ leaving'[t] = leaving[t]
  /\ connection'[t] = connection[t]
  /\ messages'[t] = messages[t]
  /\ chatInbox'[t] = chatInbox[t]
  /\ sends'[t] = sends[t]
  /\ ChatSubscribed(t)' = ChatSubscribed(t)

C21_ErrorsAreLocal ==
  [][\A t \in Tabs :
       (DeviceErrorRaised(t) \/ NegotiationFailed(t)) => ErrorIsLocal(t)]_vars

C21_Witness ==
  \E t \in Tabs :
    /\ deviceError[t]
    /\ pc[t].state = "failed"
    /\ route[t] = "meeting" /\ ~leaving[t]
    /\ connection[t] # 0
    /\ store[connectionId[t]].status = "accepted"
    /\ ChatSubscribed(t)

(***************************************************************************)
(* C22: a peer connection in state failed always has a failure notice      *)
(* shown to the user of the view, and the state was logged.                *)
(***************************************************************************)
C22_FailedIsReported ==
  \A t \in Tabs :
    pc[t].state = "failed" => pc[t].notice = "failed" /\ pc[t].logged = "failed"


(***************************************************************************)
(* C29: a Meeting view open on a session whose status is not accepted is   *)
(* eventually closed, whenever the status left accepted relative to the    *)
(* view's load and to the subscription of its change feed.                 *)
(***************************************************************************)
OpenOnEnded(t) ==
  /\ route[t] = "meeting"
  /\ connectionId[t] # 0
  /\ store[connectionId[t]].status # "accepted"

C29_EndedViewEventuallyCloses ==
  \A t \in Tabs : OpenOnEnded(t) ~> (route[t] = "index")


(***************************************************************************)
(* C25: a message sent on a component topic of a session (chat, signaling, *)
(* presence, stream announcement, change feed) is handed only to handlers  *)
(* subscribed to the same component of the same session.                   *)
(***************************************************************************)
ComponentOf(tag) == IF tag = "call" THEN "stream" ELSE tag

C25_NoCrossDelivery ==
  \A h \in routing.delivered :
    /\ h.id = routing.msg.id
    /\ ComponentOf(h.tag) = ComponentOf(routing.msg.tag)

C25_Witness ==
  \E h \in routing.delivered, g \in routing.subs \ routing.delivered :
    \/ g.tag = h.tag /\ g.id # h.id
    \/ g.tag # h.tag /\ g.id = h.id

FailureKind(name) ==
  CASE name \in {"NotFoundError", "DevicesNotFoundError"} -> "not-found"
    [] name \in {"NotAllowedError", "PermissionDeniedError"} -> "permission-denied"
    [] name \in {"NotReadableError", "TrackStartError"} -> "in-use"
    [] OTHER -> "other"

C28_DeviceFailuresClassified ==
  mediaCall.result # NoResult =>
    /\ (/\ mediaCall.result.requested
        /\ FailureKind(mediaCall.gum) # "other")
         => mediaCall.result.error = FailureKind(mediaCall.gum)
    /\ mediaCall.fn = "startMediaStream" =>
         /\ mediaCall.result.stream => mediaCall.result.error = "null"
         /\ DeviceMissing(mediaCall) =>
              mediaCall.result.error = "not-found" /\ ~mediaCall.result.requested


(***************************************************************************)
(* C35: for a caller who is no participant, the load of a record that      *)
(* exists with a status other than accepted has the same not-found outcome *)
(* as the load of a record that does not exist: the select answers nothing *)
(* for both and the participant check is not reached.                      *)
(***************************************************************************)
C35_NotAcceptedLooksAbsent ==
  [][\A t \in Tabs :
       /\ (/\ answer[t] = "none" /\ answer'[t] # "none"
           /\ ~Participant(t, Row(t))
           /\ Row(t).status # "accepted")
            => answer'[t] = "notfound"
       /\ (/\ fetch[t] /\ ~fetch'[t] /\ route'[t] = "meeting"
           /\ answer[t] = "notfound")
            => /\ outcome'[t] = "notfound"
               /\ connection'[t] = connection[t]
               /\ leaving'[t]]_vars

\* a caller who is no participant has been answered not found on a record
\* that exists and is not accepted
C35_Witness ==
  \E t \in Tabs :
    /\ route[t] = "meeting" /\ outcome[t] = "notfound" /\ leaving[t]
    /\ ~Participant(t, Row(t))
    /\ Row(t) # NoRow /\ Row(t).status # "accepted"


\* C34: when the instructor accepts a pending request, the instructor and the
\* learner on a subscribed Index page are each navigated to the meeting of that
\* connection once per acceptance, not several times: the event of the
\* acceptance makes at most one navigate call at a tab, and the continuation of
\* accepting makes none at a tab that already shows that meeting
C34_NavigatedOncePerAcceptance ==
  [][\A t \in Tabs : \A id \in ConnIds :
       /\ (store[id].status = "pending" /\ store'[id].status = "accepted")
            => FeedNavigations(t, [type |-> "UPDATE", id |-> id, status |-> "accepted"],
                               store[id].learner_id) <= 1
       /\ (<<id, TRUE>> \in responses[t] /\ <<id, TRUE>> \notin responses'[t])
            => ~(route[t] = "meeting" /\ connectionId[t] = id)]_vars


\* the number of entries of a message list that are message m
Occurrences(list, m) == Cardinality({i \in DOMAIN list : list[i] = m})

C31_OneEntryPerView ==
  \A t \in Tabs : \A c \in ConnIds : entries[t][c] <= 1


=============================================================================
